---- MODULE Spec2Model ----
(***************************************************************************)
(* Model of the "Reclaim space" dialog of anaconda-webui                   *)
(* (src/components/storage/ReclaimSpaceModal.jsx): the ledger of staged    *)
(* remove/shrink actions, the space accounting of the footer, the shrink   *)
(* popover, the shrinkability query and the commit run (onReclaim).        *)
(***************************************************************************)
EXTENDS Integers, Sequences, FiniteSets, TLC

(***************************************************************************)
(* Bounds of the model and input sets                                      *)
(***************************************************************************)
\* number of times the "Reclaim space" button is clicked in one behaviour
MaxRuns == 1

\* the same number for the behaviours in which devices are only deleted
MaxClicks == 2

\* numbers typed into the slider's input field (in the popover's unit)
TypedInputs == {-1, 1, 200}

\* slider positions (percent; the custom steps run from 0 to 100)
SliderValues == {0, 37, 100}

\* error payloads the remote executor rejects with
ErrorPayloads == {"busy", "denied"}

\* number of times the storage editor is launched in one behaviour
MaxLaunches == 3

\* values of diskSelection.usableDisks when the storage editor is launched
UsableDisks == {<<"sda">>, <<"sdb">>, <<"sda", "sdb">>}

\* values of useRequiredSize() and useDiskFreeSpace() for the session
RequiredSizes == {150000, 130000}
DiskFreeSpaces == {70000}

(***************************************************************************)
(* The device snapshot (useOriginalDevices) of the selected disks, sizes   *)
(* in bytes.  SimpleDevices: a disk with one partition that carries a      *)
(* deeper device, and a disk without partitions.  SharedDevices: a volume  *)
(* group on two physical volumes, a partition of the first disk and the    *)
(* whole second disk.                                                      *)
(***************************************************************************)
Device(name, type, total, free, parents, children) ==
    [name |-> name, type |-> type, total |-> total, free |-> free,
     parents |-> parents, children |-> children]

SimpleDevices ==
    ( "sda"  :> Device("sda",  "disk",      100000, 20000, << >>,     <<"sda1">>) ) @@
    ( "sda1" :> Device("sda1", "partition", 80000,  20000, <<"sda">>, <<"luks1">>) ) @@
    ( "luks1" :> Device("luks1", "luks/dm-crypt", 80000, 20000, <<"sda1">>, << >>) ) @@
    ( "sdb"  :> Device("sdb",  "disk",      50000,  50000, << >>,     << >>) )

SharedDevices ==
    ( "sda"  :> Device("sda",  "disk",      100000, 20000, << >>,     <<"sda1">>) ) @@
    ( "sda1" :> Device("sda1", "partition", 80000,  20000, <<"sda">>, <<"vg0">>) ) @@
    ( "vg0"  :> Device("vg0",  "lvmvg",     120000, 30000, <<"sdb", "sda1">>, << >>) ) @@
    ( "sdb"  :> Device("sdb",  "disk",      50000,  0,     << >>,     <<"vg0">>) )

Snapshots == {SimpleDevices, SharedDevices}

\* const devices = useOriginalDevices(): the same snapshot for the whole
\* session.  What depends on the snapshot alone is tabulated per snapshot.
VARIABLE devices

\* Object.keys(devices): the insertion order of the snapshot
KeysOf ==
    [devs \in Snapshots |->
        IF devs = SharedDevices THEN <<"sda", "sda1", "vg0", "sdb">>
        ELSE <<"sda", "sda1", "luks1", "sdb">>]

DeviceKeys == KeysOf[devices]

NamesOf == [devs \in Snapshots |-> { KeysOf[devs][i] : i \in 1..Len(KeysOf[devs]) }]

DeviceNames == NamesOf[devices]

\* diskSelection.selectedDisks
selectedDisks == <<"sda", "sdb">>

\* the value of an action staged without one: onAction(action, value = "").
\* Every read of a remove action's value is the arithmetic of line 176,
\* where "" converts to the number 0.
EmptyString == 0

Range(s) == { s[i] : i \in 1..Len(s) }

RECURSIVE SumOver(_, _)
SumOver(S, f) ==
    IF S = {} THEN 0
    ELSE LET x == CHOOSE y \in S : TRUE IN f[x] + SumOver(S \ {x}, f)

RECURSIVE SumSeq(_)
SumSeq(s) == IF s = << >> THEN 0 ELSE Head(s) + SumSeq(Tail(s))

RECURSIVE Concat(_)
Concat(ss) == IF ss = << >> THEN << >> ELSE Head(ss) \o Concat(Tail(ss))

(***************************************************************************)
(* helpers/storage.js                                                      *)
(***************************************************************************)
\* getDeviceAncestors(devices, device): the parents, transitively, nearest
\* first; a name already visited is not walked again
RECURSIVE AncestorsWalk(_, _, _)
AncestorsWalk(devs, todo, seen) ==
    IF todo = << >> THEN << >>
    ELSE LET p == Head(todo) IN
         IF p \in seen \/ p \notin DOMAIN devs
         THEN AncestorsWalk(devs, Tail(todo), seen)
         ELSE <<p>> \o AncestorsWalk(devs, Tail(todo) \o devs[p].parents, seen \cup {p})

getDeviceAncestors(devs, device) ==
    AncestorsWalk(devs, devs[device].parents, {device})

\* unitMultiplier[unit]: bytes per unit
unitMultiplier == [B |-> 1, KB |-> 1000, MB |-> 1000000]

\* cockpit.format_bytes(total).split(" ")[1]: the unit a size is shown in
originalUnit(total) ==
    IF total < 1000 THEN "B" ELSE IF total < 1000000 THEN "KB" ELSE "MB"

(***************************************************************************)
(* State                                                                   *)
(***************************************************************************)
VARIABLES
    unappliedActions,   \* the ledger: device name -> sequence of actions
    value,              \* ShrinkPopover's value of each shrinkable row
    isShrinkable,       \* useIsDeviceShrinkable's state: "undefined", "true", "false"
    shrinkQuery,        \* the isDeviceShrinkable call: "pending", "resolved", "failed"
    dialogError,        \* << >> (undefined) or <<error>>
    onNextClicked,
    isFormDisabled,     \* prop of the modal
    requiredSize,       \* useRequiredSize()
    diskFreeSpace,      \* useDiskFreeSpace()
    runs,               \* the onReclaim invocations, in the order they started:
                        \* where the loops of lines 70 and 72 stand
    calls,              \* the calls issued to the remote executor, in order
    onNextCalls,        \* number of times onNext() was called
    isOpen,             \* the modal is mounted (onClose was not called)
    lastUndo,           \* << >> or <<what the last call of onUndo made by a caller
                        \* other than the undo button did>>
    openedDialog,       \* ModifyStorage: "", "modify" or "rescan"
    toolIsStarting,     \* ModifyStorageModal
    cockpit_window,     \* << >> (null) or <<the window handle>>
    storageTab,         \* the browser has a window named "storage-tab"
    localStorage,       \* the item "cockpit_anaconda": << >> or <<its value>>
    launches,           \* number of window.open() calls
    onRescanCalls       \* number of times onRescan() was called

vars == <<devices, unappliedActions, value, isShrinkable, shrinkQuery, dialogError,
          onNextClicked, isFormDisabled, requiredSize, diskFreeSpace, runs,
          calls, onNextCalls, isOpen, lastUndo, openedDialog, toolIsStarting,
          cockpit_window, storageTab, localStorage, launches, onRescanCalls>>

(***************************************************************************)
(* Rows of the table                                                       *)
(***************************************************************************)
RECURSIVE getDeviceRow(_, _, _)
getDeviceRow(disk, devs, level) ==
    <<[device |-> disk, level |-> level]>> \o
    Concat([i \in 1..Len(devs[disk].children) |->
                getDeviceRow(devs[disk].children[i], devs, level + 1)])

RowsOf ==
    [devs \in Snapshots |->
        Concat([i \in 1..Len(selectedDisks) |-> getDeviceRow(selectedDisks[i], devs, 0)])]

rows == RowsOf[devices]

\* the devices whose row renders DeviceActions (level <= 1)
ActionDevicesOf ==
    [devs \in Snapshots |->
        { r.device : r \in { x \in Range(RowsOf[devs]) : ~(x.level > 1) } }]

ActionDevices == ActionDevicesOf[devices]

\* the rows that can render a ShrinkPopover. useIsDeviceShrinkable also runs
\* for the rows of disks, where line 386 never renders its result: value,
\* isShrinkable and shrinkQuery are kept for these rows only
PopoverDevicesOf ==
    [devs \in Snapshots |-> { d \in ActionDevicesOf[devs] : devs[d].type # "disk" }]

PopoverDevices == PopoverDevicesOf[devices]

(***************************************************************************)
(* Space accounting                                                        *)
(***************************************************************************)
isDeviceRemoved(ua, device) ==
    \E i \in 1..Len(ua[device]) : ua[device][i].type = "remove"

isDeviceResized(ua, device) ==
    \E i \in 1..Len(ua[device]) : ua[device][i].type = "shrink"

\* as isDeviceParentRemoved, but looking for a shrink on the ancestors
isDeviceParentRemoved_Resized(devs, ua, device) ==
    \E a \in Range(getDeviceAncestors(devs, device)) : isDeviceResized(ua, a)

isDeviceParentRemoved(devs, ua, device) ==
    \E a \in Range(getDeviceAncestors(devs, device)) : isDeviceRemoved(ua, a)

\* as RemoveCounted, without the test of the ancestors
RemoveCounted_Unfiltered(devs, ua) ==
    { d \in DOMAIN ua : isDeviceRemoved(ua, d) }

\* the devices counted for remove (line 169)
RemoveCounted(devs, ua) ==
    { d \in DOMAIN ua : isDeviceRemoved(ua, d) /\ ~isDeviceParentRemoved(devs, ua, d) }

\* as ShrinkCounted, without the test of the ancestors
ShrinkCounted_Unfiltered(devs, ua) ==
    { d \in DOMAIN ua : isDeviceResized(ua, d) }

\* the devices counted for shrink (line 175)
ShrinkCounted(devs, ua) ==
    { d \in DOMAIN ua : isDeviceResized(ua, d) /\ ~isDeviceParentRemoved(devs, ua, d) }

\* one device's term of the remove sum (line 170)
RemoveTerm(devs, ua, d) == devs[d].total - devs[d].free

\* as ShrinkTerm, but adding up the new sizes
ShrinkTerm_NewSize(devs, ua, d) ==
    SumSeq([i \in 1..Len(ua[d]) |-> ua[d][i].value])

\* one device's term of the shrink sum: the inner reduce of line 176
ShrinkTerm(devs, ua, d) ==
    SumSeq([i \in 1..Len(ua[d]) |-> devs[d].total - ua[d][i].value])

\* getReclaimableSpaceFromAction restricted to the ledger keys in `keys`
ReclaimableOver(keys, action, devs, ua) ==
    IF action = "remove"
    THEN SumOver(RemoveCounted(devs, ua) \cap keys,
                 [d \in DOMAIN ua |-> RemoveTerm(devs, ua, d)])
    ELSE SumOver(ShrinkCounted(devs, ua) \cap keys,
                 [d \in DOMAIN ua |-> ShrinkTerm(devs, ua, d)])

getReclaimableSpaceFromAction(action, devs, ua) ==
    ReclaimableOver(DOMAIN ua, action, devs, ua)

\* ReclaimFooter
selectedSpaceToDelete == getReclaimableSpaceFromAction("remove", devices, unappliedActions)
selectedSpaceToShrink == getReclaimableSpaceFromAction("shrink", devices, unappliedActions)
selectedSpaceToReclaim == selectedSpaceToDelete + selectedSpaceToShrink

\* as statusOf, with <= for <
statusOf_Inclusive(free, reclaim, required) ==
    IF (free + reclaim) <= required THEN "warning" ELSE "success"

\* as statusOf, with > for <
statusOf_Flipped(free, reclaim, required) ==
    IF (free + reclaim) > required THEN "warning" ELSE "success"

statusOf(free, reclaim, required) ==
    IF (free + reclaim) < required THEN "warning" ELSE "success"

status == statusOf(diskFreeSpace, selectedSpaceToReclaim, requiredSize)

\* isDisabled of the "Reclaim space" button
ReclaimDisabled == status = "warning" \/ isFormDisabled

(***************************************************************************)
(* DeviceActions: what a row offers                                        *)
(***************************************************************************)
\* unappliedActions[device].find(action => action.type === type), as a
\* sequence: << >> is undefined, <<a>> the action found
getDeviceActionOfType(device, type, ua) ==
    LET found == SelectSeq(ua[device], LAMBDA a : a.type = type)
    IN  IF found = << >> THEN << >> ELSE <<Head(found)>>

parentHasRemove(ua, d) ==
    \E p \in Range(devices[d].parents) : getDeviceActionOfType(p, "remove", ua) # << >>

hasBeenRemoved(ua, d) ==
    parentHasRemove(ua, d) \/ getDeviceActionOfType(d, "remove", ua) # << >>

\* << >> (undefined) or <<the value of the first shrink action>>
newDeviceSize(ua, d) ==
    LET a == getDeviceActionOfType(d, "shrink", ua)
    IN  IF a = << >> THEN << >> ELSE <<a[1].value>>

hasUnappliedActions(ua, d) == ~parentHasRemove(ua, d) /\ Len(ua[d]) > 0

\* a JavaScript value used as a condition
Truthy(v) == v # << >> /\ v[1] # 0

\* as ShrinkPopoverShown, without the test of newDeviceSize
ShrinkPopoverShown_NoSize(ua, d) ==
    /\ d \in ActionDevices
    /\ ~hasBeenRemoved(ua, d)
    /\ devices[d].type # "disk"

\* DeviceActionShrink renders the ShrinkPopover
ShrinkPopoverShown(ua, d) ==
    /\ d \in ActionDevices
    /\ ~hasBeenRemoved(ua, d)
    /\ ~Truthy(newDeviceSize(ua, d))
    /\ devices[d].type # "disk"

\* as ShrinkEnabled, but disabled only once the answer is no
ShrinkEnabled_UnlessNo(ua, shrinkable, d) ==
    ShrinkPopoverShown(ua, d) /\ shrinkable[d] # "false"

\* the popover's button is not disabled (isDisabled={!isDeviceShrinkable})
ShrinkEnabled(ua, shrinkable, d) ==
    ShrinkPopoverShown(ua, d) /\ shrinkable[d] = "true"

\* as isRemoveDisabled, but never disabling the button
isRemoveDisabled_Never(d) == FALSE

\* DeviceActionDelete
isRemoveDisabled(d) == devices[d].type = "disk" /\ Len(devices[d].children) = 0

\* as DeleteButtonShown, without the test of hasBeenRemoved
DeleteButtonShown_NoRemoved(ua, d) ==
    /\ d \in ActionDevices
    /\ newDeviceSize(ua, d) = << >>

DeleteButtonShown(ua, d) ==
    /\ d \in ActionDevices
    /\ newDeviceSize(ua, d) = << >>
    /\ ~hasBeenRemoved(ua, d)

DeleteEnabled(ua, d) == DeleteButtonShown(ua, d) /\ ~isRemoveDisabled(d)

UndoShown(ua, d) == d \in ActionDevices /\ hasUnappliedActions(ua, d)

(***************************************************************************)
(* ShrinkPopover                                                           *)
(***************************************************************************)
Min(a, b) == IF a < b THEN a ELSE b

\* Math.round of the rational n / d (d > 0): the nearest integer, halves up
Round(n, d) == (2 * n + d) \div (2 * d)

\* onChange with a typed inputValue (lines 412-415)
ClampTyped(d, inputValue) ==
    Min(devices[d].total, inputValue * unitMultiplier[originalUnit(devices[d].total)])

\* onChange with a sliderValue (lines 416-417)
FromSlider(d, sliderValue) == Round(sliderValue * devices[d].total, 100)

\* isDisabled of the Resize button (line 428)
ResizeDisabled(d, v) == v = 0 \/ v = devices[d].total

\* a ShrinkPopover that is not rendered loses its state; mounted again it
\* starts from useState(device.total.v)
Remount(ua, v) ==
    [d \in PopoverDevices |->
        IF ShrinkPopoverShown(ua, d) THEN v[d] ELSE devices[d].total]

(***************************************************************************)
(* The ledger operations of DeviceActions                                  *)
(***************************************************************************)
\* the updater of onAction (lines 285-290)
onAction(ua, d, action, v) ==
    [ua EXCEPT ![d] = Append(@, [type |-> action, value |-> v])]

\* as onUndo, but popping from a copy of the array
onUndo_Copy(ua, d) == ua

\* as onUndo, but keeping the action taken away under a key of its own
onUndo_KeepUndone(ua, d) ==
    [x \in (DOMAIN ua) \cup {"undone"} |->
        IF x = "undone" THEN ua[d]
        ELSE IF x = d /\ ua[d] # << >> THEN SubSeq(ua[d], 1, Len(ua[d]) - 1)
        ELSE ua[x]]

\* the updater of onUndo (lines 293-298): Array.prototype.pop
onUndo(ua, d) ==
    [ua EXCEPT ![d] = IF @ = << >> THEN << >> ELSE SubSeq(@, 1, Len(@) - 1)]

(***************************************************************************)
(* onReclaim: the commit run                                               *)
(***************************************************************************)
\* the loops of lines 70-72 read the arrays of the ledger themselves (the
\* updaters of onAction and onUndo copy the object, not its arrays): from
\* entry i, index j, the next action that exists now, or entry
\* Len(DeviceKeys) + 1 when there is none
\* as NextPos, but leaving both loops at the first entry that is exhausted
RECURSIVE NextPos_Break(_, _, _)
NextPos_Break(ua, i, j) ==
    IF i > Len(DeviceKeys) THEN <<i, 1>>
    ELSE IF j <= Len(ua[DeviceKeys[i]]) THEN <<i, j>>
    ELSE <<Len(DeviceKeys) + 1, 1>>

RECURSIVE NextPos(_, _, _)
NextPos(ua, i, j) ==
    IF i > Len(DeviceKeys) THEN <<i, 1>>
    ELSE IF j <= Len(ua[DeviceKeys[i]]) THEN <<i, j>>
    ELSE NextPos(ua, i + 1, 1)

\* the request of lines 74-85 for one action of one device
ExecutorRequest(device, action) ==
    IF action.type = "remove"
    THEN [op |-> "removeDevice", deviceName |-> device]
    ELSE [op |-> "shrinkDevice", deviceName |-> device, newSize |-> action.value]

\* the error of lines 87-91 for a rejected request
ErrorOf(request, error) ==
    [text |-> <<IF request.op = "removeDevice" THEN "deletion" ELSE "resizing",
                request.deviceName>>,
     message |-> error]

\* the index in calls of the request run r awaits
PendingCall(cs, r) ==
    CHOOSE k \in 1..Len(cs) : cs[k].run = r /\ cs[k].result = "pending"

\* the useEffect of lines 100-107, run after a render with these values:
\* <<onNextClicked, number of onNext() calls>>
NextEffect(clicked, disabled, n) ==
    IF clicked /\ ~disabled THEN <<FALSE, n + 1>> ELSE <<clicked, n>>

\* the run of r goes on from position pos: it awaits the request of the
\* action there, or it is past the last entry and sets onNextClicked
Continue(r, rs, cs, pos) ==
    IF pos[1] > Len(DeviceKeys)
    THEN LET eff == IF isOpen THEN NextEffect(TRUE, isFormDisabled, onNextCalls)
                    ELSE <<onNextClicked, onNextCalls>>
         IN  /\ runs' = [rs EXCEPT ![r].pc = "done", ![r].dev = pos[1], ![r].act = pos[2]]
             /\ calls' = cs
             /\ onNextClicked' = eff[1]
             /\ onNextCalls' = eff[2]
    ELSE LET device == DeviceKeys[pos[1]]
             action == unappliedActions[device][pos[2]]
         IN  /\ runs' = [rs EXCEPT ![r].pc = "await", ![r].dev = pos[1], ![r].act = pos[2]]
             /\ calls' = Append(cs, [run |-> r, at |-> pos, result |-> "pending", error |-> "",
                                     request |-> ExecutorRequest(device, action)])
             /\ UNCHANGED <<onNextClicked, onNextCalls>>

(***************************************************************************)
(* Initial state                                                           *)
(***************************************************************************)
Mounted ==
    /\ unappliedActions = [d \in DeviceNames |-> << >>]
    /\ value = [d \in PopoverDevices |-> devices[d].total]
    /\ isShrinkable = [d \in PopoverDevices |-> "undefined"]
    /\ shrinkQuery = [d \in PopoverDevices |-> "pending"]
    /\ dialogError = << >>
    /\ onNextClicked = FALSE
    /\ isFormDisabled = FALSE
    /\ requiredSize \in RequiredSizes
    /\ diskFreeSpace \in DiskFreeSpaces
    /\ runs = << >>
    /\ calls = << >>
    /\ onNextCalls = 0
    /\ isOpen = TRUE
    /\ lastUndo = << >>
    /\ openedDialog = ""
    /\ toolIsStarting = FALSE
    /\ cockpit_window = << >>
    /\ storageTab = FALSE
    /\ localStorage = << >>
    /\ launches = 0
    /\ onRescanCalls = 0

Init == devices = SimpleDevices /\ Mounted

\* the dialog opened on the disks that share a volume group
InitShared == devices = SharedDevices /\ Mounted

(***************************************************************************)
(* Actions                                                                 *)
(***************************************************************************)
session == <<devices, requiredSize, diskFreeSpace>>
editor == <<openedDialog, toolIsStarting, cockpit_window, storageTab, localStorage,
            launches, onRescanCalls>>
commit == <<dialogError, onNextClicked, runs, calls, onNextCalls>>
query == <<isShrinkable, shrinkQuery>>

\* the isDeviceShrinkable call of a row resolves
ShrinkableResolved(d, answer) ==
    /\ isOpen
    /\ shrinkQuery[d] = "pending"
    /\ shrinkQuery' = [shrinkQuery EXCEPT ![d] = "resolved"]
    /\ isShrinkable' = [isShrinkable EXCEPT ![d] = answer]
    /\ UNCHANGED <<unappliedActions, value, isFormDisabled, isOpen, session, editor, lastUndo, commit>>

\* the isDeviceShrinkable call of a row is rejected: setIsShrinkable is not reached
ShrinkableFailed(d) ==
    /\ isOpen
    /\ shrinkQuery[d] = "pending"
    /\ shrinkQuery' = [shrinkQuery EXCEPT ![d] = "failed"]
    /\ UNCHANGED <<unappliedActions, value, isShrinkable, isFormDisabled, isOpen,
                   session, editor, lastUndo, commit>>

\* the slider of the popover is moved
SliderMoved(d, sliderValue) ==
    /\ isOpen
    /\ ShrinkEnabled(unappliedActions, isShrinkable, d)
    /\ value' = [value EXCEPT ![d] = FromSlider(d, sliderValue)]
    /\ UNCHANGED <<unappliedActions, isFormDisabled, isOpen, session, editor, lastUndo, commit, query>>

\* a size is typed into the input of the slider
SizeTyped(d, inputValue) ==
    /\ isOpen
    /\ ShrinkEnabled(unappliedActions, isShrinkable, d)
    /\ value' = [value EXCEPT ![d] = ClampTyped(d, inputValue)]
    /\ UNCHANGED <<unappliedActions, isFormDisabled, isOpen, session, editor, lastUndo, commit, query>>

\* the Resize button of the popover: onShrink(value)
ResizeClicked(d) ==
    /\ isOpen
    /\ ShrinkEnabled(unappliedActions, isShrinkable, d)
    /\ ~ResizeDisabled(d, value[d])
    /\ unappliedActions' = onAction(unappliedActions, d, "shrink", value[d])
    /\ value' = Remount(unappliedActions', value)
    /\ UNCHANGED <<isFormDisabled, isOpen, session, editor, lastUndo, commit, query>>

\* as DeleteClicked, but sending the removal to the executor at once
DeleteClicked_Eager(d) ==
    /\ isOpen
    /\ DeleteEnabled(unappliedActions, d)
    /\ unappliedActions' = onAction(unappliedActions, d, "remove", EmptyString)
    /\ value' = Remount(unappliedActions', value)
    /\ calls' = Append(calls, [run |-> 0, at |-> <<1, 1>>, result |-> "pending", error |-> "",
                               request |-> [op |-> "removeDevice", deviceName |-> d]])
    /\ UNCHANGED <<isFormDisabled, isOpen, session, editor, lastUndo, dialogError, onNextClicked, runs,
                   onNextCalls, query>>

\* the delete button of a row: onRemove
DeleteClicked(d) ==
    /\ isOpen
    /\ DeleteEnabled(unappliedActions, d)
    /\ unappliedActions' = onAction(unappliedActions, d, "remove", EmptyString)
    /\ value' = Remount(unappliedActions', value)
    /\ UNCHANGED <<isFormDisabled, isOpen, session, editor, lastUndo, commit, query>>

\* the undo button of a row
UndoClicked(d) ==
    /\ isOpen
    /\ UndoShown(unappliedActions, d)
    /\ unappliedActions' = onUndo(unappliedActions, d)
    /\ value' = Remount(unappliedActions', value)
    /\ UNCHANGED <<isFormDisabled, isOpen, session, editor, lastUndo, commit, query>>

\* onReclaim runs up to its first await.  The code keeps no copy of the
\* ledger: staged only notes one for the properties
onReclaim(staged, most) ==
    /\ isOpen
    /\ ~ReclaimDisabled
    /\ Len(runs) < most
    /\ Continue(Len(runs) + 1,
                Append(runs, [pc |-> "await", dev |-> 1, act |-> 1, staged |-> staged]),
                calls, NextPos(unappliedActions, 1, 1))
    /\ UNCHANGED <<unappliedActions, value, dialogError, isFormDisabled, isOpen,
                   session, editor, lastUndo, query>>

\* the "Reclaim space" button
ReclaimClicked == onReclaim(<< >>, MaxRuns)

\* the same click, noting the ledger as it is at the click
ReclaimClickedNoted == onReclaim(<<unappliedActions>>, MaxRuns)

\* the same button in the behaviours in which devices are only deleted
ReclaimClickedAgain == onReclaim(<< >>, MaxClicks)

\* the request a run awaits resolves: the run goes on to the next action
ExecutorResolved(r) ==
    /\ runs[r].pc = "await"
    /\ LET k == PendingCall(calls, r)
       IN  Continue(r, runs, [calls EXCEPT ![k].result = "resolved"],
                    NextPos(unappliedActions, runs[r].dev, runs[r].act + 1))
    /\ UNCHANGED <<unappliedActions, value, dialogError, isFormDisabled, isOpen,
                   session, editor, lastUndo, query>>

\* as ExecutorRejected, but sending the rejected request once more
ExecutorRejected_Retry(r, error) ==
    /\ runs[r].pc = "await"
    /\ LET k == PendingCall(calls, r)
       IN  /\ calls' = Append([calls EXCEPT ![k].result = "rejected", ![k].error = error],
                              [calls[k] EXCEPT !.result = "pending"])
           /\ dialogError' = IF isOpen THEN <<ErrorOf(calls[k].request, error)>>
                             ELSE dialogError
    /\ UNCHANGED <<unappliedActions, value, onNextClicked, onNextCalls, isFormDisabled,
                   isOpen, session, editor, lastUndo, query, runs>>

\* as ExecutorRejected, but without the return of line 93: the loop goes on
ExecutorRejected_NoReturn(r, error) ==
    /\ runs[r].pc = "await"
    /\ LET k == PendingCall(calls, r)
       IN  /\ Continue(r, runs, [calls EXCEPT ![k].result = "rejected", ![k].error = error],
                       NextPos(unappliedActions, runs[r].dev, runs[r].act + 1))
           /\ dialogError' = IF isOpen THEN <<ErrorOf(calls[k].request, error)>>
                             ELSE dialogError
    /\ UNCHANGED <<unappliedActions, value, isFormDisabled, isOpen, session, editor, lastUndo, query>>

\* the request a run awaits is rejected: the catch block of lines 86-94
ExecutorRejected(r, error) ==
    /\ runs[r].pc = "await"
    /\ LET k == PendingCall(calls, r)
       IN  /\ calls' = [calls EXCEPT ![k].result = "rejected", ![k].error = error]
           /\ dialogError' = IF isOpen THEN <<ErrorOf(calls[k].request, error)>>
                             ELSE dialogError
    /\ runs' = [runs EXCEPT ![r].pc = "failed"]
    /\ UNCHANGED <<unappliedActions, value, onNextClicked, onNextCalls, isFormDisabled,
                   isOpen, session, editor, lastUndo, query>>

\* the parent changes the isFormDisabled prop
FormDisabledSet(b) ==
    /\ isOpen
    /\ isFormDisabled # b
    /\ isFormDisabled' = b
    /\ LET eff == NextEffect(onNextClicked, b, onNextCalls)
       IN  onNextClicked' = eff[1] /\ onNextCalls' = eff[2]
    /\ UNCHANGED <<unappliedActions, value, dialogError, runs, calls, isOpen,
                   session, editor, lastUndo, query>>

\* Cancel, or the close button of the modal: onClose
CloseClicked ==
    /\ isOpen
    /\ isOpen' = FALSE
    /\ UNCHANGED <<unappliedActions, value, isFormDisabled, session, editor, lastUndo, commit, query>>

\* onUndo of a row called by a caller that does not look at what the row
\* renders.  The updater (lines 293-298) has no throw statement and pop() of
\* an empty array returns undefined: the call ends without an exception
UndoCalled(d) ==
    /\ isOpen
    /\ unappliedActions' = onUndo(unappliedActions, d)
    /\ value' = Remount(unappliedActions', value)
    /\ lastUndo' = <<[device |-> d,
                      empty |-> unappliedActions[d] = << >>,
                      thrown |-> << >>,
                      unchanged |-> unappliedActions' = unappliedActions]>>
    /\ UNCHANGED <<isFormDisabled, isOpen, session, editor, commit, query>>

\* the controls of the rows and the queries behind them
RowControls ==
    \/ \E d \in PopoverDevices, answer \in {"true", "false"} : ShrinkableResolved(d, answer)
    \/ \E d \in PopoverDevices : ShrinkableFailed(d)
    \/ \E d \in PopoverDevices, sliderValue \in SliderValues : SliderMoved(d, sliderValue)
    \/ \E d \in PopoverDevices, inputValue \in TypedInputs : SizeTyped(d, inputValue)
    \/ \E d \in PopoverDevices : ResizeClicked(d)
    \/ \E d \in ActionDevices : DeleteClicked(d)
    \/ \E d \in ActionDevices : UndoClicked(d)

\* the answers of the executor, the isFormDisabled prop and the close button
Elsewhere ==
    \/ \E r \in 1..Len(runs) : ExecutorResolved(r)
    \/ \E r \in 1..Len(runs), error \in ErrorPayloads : ExecutorRejected(r, error)
    \/ \E b \in BOOLEAN : FormDisabledSet(b)
    \/ CloseClicked

Next ==
    \/ RowControls
    \/ ReclaimClicked
    \/ Elsewhere

Spec == Init /\ [][Next]_vars

\* the same dialog, every run noting the ledger of its click
NextNoted ==
    \/ RowControls
    \/ ReclaimClickedNoted
    \/ Elsewhere

SpecNoted == Init /\ [][NextNoted]_vars

\* the dialog used with the delete and undo buttons only: no popover, and
\* the "Reclaim space" button clicked more often
NextRemovals ==
    \/ \E d \in ActionDevices : DeleteClicked(d)
    \/ \E d \in ActionDevices : UndoClicked(d)
    \/ ReclaimClickedAgain
    \/ Elsewhere

SpecRemovals == Init /\ [][NextRemovals]_vars

(***************************************************************************)
(* ModifyStorage.jsx: the "Modify storage" button, its two dialogs and the *)
(* window of the storage editor                                            *)
(***************************************************************************)
reclaim == <<devices, unappliedActions, value, isShrinkable, shrinkQuery, dialogError,
             onNextClicked, isFormDisabled, requiredSize, diskFreeSpace, runs, calls,
             onNextCalls, isOpen, lastUndo>>

\* the value startCockpitStorage stores under "cockpit_anaconda"; "/dev/" + d
\* is kept as the pair of the prefix and the name
CockpitAnaconda(usableDisks) ==
    [mount_point_prefix |-> "/mnt/sysimage",
     available_devices |-> [i \in 1..Len(usableDisks) |-> <<"/dev/", usableDisks[i]>>]]

\* as stopCockpitStorage, but forgetting the window without closing it
stopCockpitStorage_KeepOpen(w, tab) ==
    [cockpit_window |-> << >>, storageTab |-> tab]

\* stopCockpitStorage: the handle and the browser's window afterwards
stopCockpitStorage(w, tab) ==
    IF w # << >> THEN [cockpit_window |-> << >>, storageTab |-> FALSE]
    ELSE [cockpit_window |-> w, storageTab |-> tab]

\* the "Modify storage" button; a modal dialog that is open covers it
ModifyStorageClicked ==
    /\ openedDialog = ""
    /\ openedDialog' = "modify"
    /\ UNCHANGED <<toolIsStarting, cockpit_window, storageTab, localStorage, launches,
                   onRescanCalls, reclaim>>

\* "Launch storage editor": startCockpitStorage with onStart and onStarted.
\* window.open returns null when the browser refuses to open the window.
LaunchClicked(usableDisks, opened) ==
    /\ openedDialog = "modify"
    /\ ~toolIsStarting
    /\ launches < MaxLaunches
    /\ localStorage' = <<CockpitAnaconda(usableDisks)>>
    /\ cockpit_window' = IF opened THEN <<"storage-tab">> ELSE << >>
    /\ storageTab' = (storageTab \/ opened)
    /\ launches' = launches + 1
    /\ toolIsStarting' = FALSE
    /\ openedDialog' = "rescan"
    /\ UNCHANGED <<onRescanCalls, reclaim>>

\* "Cancel" of the modify dialog
CancelClicked ==
    /\ openedDialog = "modify"
    /\ ~toolIsStarting
    /\ openedDialog' = ""
    /\ UNCHANGED <<toolIsStarting, cockpit_window, storageTab, localStorage, launches,
                   onRescanCalls, reclaim>>

\* "Rescan storage": stopCockpitStorage(); onClose(); onRescan()
RescanStorageClicked ==
    /\ openedDialog = "rescan"
    /\ LET stopped == stopCockpitStorage(cockpit_window, storageTab)
       IN  /\ cockpit_window' = stopped.cockpit_window
           /\ storageTab' = stopped.storageTab
    /\ openedDialog' = ""
    /\ onRescanCalls' = onRescanCalls + 1
    /\ UNCHANGED <<toolIsStarting, localStorage, launches, reclaim>>

\* "Ignore": stopCockpitStorage(); onClose()
IgnoreClicked ==
    /\ openedDialog = "rescan"
    /\ LET stopped == stopCockpitStorage(cockpit_window, storageTab)
       IN  /\ cockpit_window' = stopped.cockpit_window
           /\ storageTab' = stopped.storageTab
    /\ openedDialog' = ""
    /\ UNCHANGED <<toolIsStarting, localStorage, launches, onRescanCalls, reclaim>>

\* the user closes the window of the storage editor
StorageTabClosed ==
    /\ storageTab
    /\ storageTab' = FALSE
    /\ UNCHANGED <<openedDialog, toolIsStarting, cockpit_window, localStorage, launches,
                   onRescanCalls, reclaim>>

NextModify ==
    \/ ModifyStorageClicked
    \/ \E usableDisks \in UsableDisks, opened \in BOOLEAN : LaunchClicked(usableDisks, opened)
    \/ CancelClicked
    \/ RescanStorageClicked
    \/ IgnoreClicked
    \/ StorageTabClosed

SpecModify == Init /\ [][NextModify]_vars

\* the dialog on the disks that share a volume group, as long as neither
\* button of the footer is clicked: the rows' controls only
SpecShared == InitShared /\ [][RowControls]_vars

\* the rows' controls, and onUndo called on any row that renders the actions
LedgerCalls ==
    \/ RowControls
    \/ \E d \in ActionDevices : UndoCalled(d)

SpecLedger == Init /\ [][LedgerCalls]_vars

(***************************************************************************)
(* Vocabulary of the properties                                            *)
(***************************************************************************)
\* the devices below a device, by the children links of the snapshot
RECURSIVE Descendants(_)
Descendants(a) ==
    LET kids == Range(devices[a].children)
    IN  kids \cup UNION { Descendants(k) : k \in kids }

\* the ancestors of d that have a staged remove
RemovedAncestors(ua, d) ==
    { a \in DeviceNames : d \in Descendants(a) /\
                          \E i \in 1..Len(ua[a]) : ua[a][i].type = "remove" }

\* the ledger without the actions of d
Without(ua, d) == [ua EXCEPT ![d] = << >>]

\* what the actions of d add to a total
OwnShare(action, ua, d) ==
    getReclaimableSpaceFromAction(action, devices, ua)
        - getReclaimableSpaceFromAction(action, devices, Without(ua, d))

HasRemove(ua, d) == \E i \in 1..Len(ua[d]) : ua[d][i].type = "remove"

removeAction == [type |-> "remove", value |-> EmptyString]

\* C1: whenever an ancestor of a device has a staged remove, the device's
\* own staged actions add nothing to the remove total and nothing to the
\* shrink total: taking them out of the ledger changes neither
C1_AncestorOverride ==
    \A d \in DeviceNames :
        RemovedAncestors(unappliedActions, d) # {} =>
            /\ OwnShare("remove", unappliedActions, d) = 0
            /\ OwnShare("shrink", unappliedActions, d) = 0

\* a removed disk whose partition has a staged action of its own
C1_Witness ==
    /\ HasRemove(unappliedActions, "sda")
    /\ unappliedActions["sda1"] # << >>

\* C2: a staged remove on a device with no removed ancestor makes the
\* device and everything below it count for exactly the device's
\* total - free in the remove total, whatever removes are staged below it;
\* with the snapshot's sda (100000, 20000) and sda1 (80000, 20000), a remove
\* on sda1 alone gives 60000 and removes on both give 80000
C2_NoDoubleCounting ==
    /\ \A p \in DeviceNames :
          (HasRemove(unappliedActions, p) /\ RemovedAncestors(unappliedActions, p) = {}) =>
              ReclaimableOver({p} \cup Descendants(p), "remove", devices, unappliedActions)
                  = devices[p].total - devices[p].free
    /\ (unappliedActions["sda1"] = <<removeAction>> /\ unappliedActions["sda"] = << >>)
          => selectedSpaceToDelete = 60000
    /\ (unappliedActions["sda1"] = <<removeAction>> /\ unappliedActions["sda"] = <<removeAction>>)
          => selectedSpaceToDelete = 80000

\* removes are staged on a disk and on its partition at once
C2_Witness ==
    /\ HasRemove(unappliedActions, "sda")
    /\ HasRemove(unappliedActions, "sda1")

\* a step appends an action to the sequence of d
Appended(d) ==
    /\ Len(unappliedActions'[d]) = Len(unappliedActions[d]) + 1
    /\ \A e \in DeviceNames \ {d} : unappliedActions'[e] = unappliedActions[e]

\* the removed and shrunk flags and the shrink target a row shows
Effective(ua) ==
    [d \in DeviceNames |->
        <<hasBeenRemoved(ua, d), newDeviceSize(ua, d),
          isDeviceRemoved(ua, d), isDeviceResized(ua, d),
          isDeviceParentRemoved(devices, ua, d)>>]

\* C3: right after an action is appended to a device the undo of that
\* device is offered, and it gives back the ledger as it was before the
\* append: every sequence, every derived flag and both totals
C3_UndoInverse ==
    [][\A d \in DeviceNames :
          Appended(d) =>
              LET undone == onUndo(unappliedActions', d)
              IN  /\ UndoShown(unappliedActions', d)
                  /\ undone = unappliedActions
                  /\ Effective(undone) = Effective(unappliedActions)
                  /\ getReclaimableSpaceFromAction("remove", devices, undone)
                        = selectedSpaceToDelete
                  /\ getReclaimableSpaceFromAction("shrink", devices, undone)
                        = selectedSpaceToShrink]_vars

\* an action was appended to a partition and its undo is offered
C3_Witness ==
    /\ unappliedActions["sda1"] # << >>
    /\ UndoShown(unappliedActions, "sda1")

\* the calls of run r among the calls cs, in the order they were issued
CallsOf(cs, r) == SelectSeq(cs, LAMBDA c : c.run = r)

\* position p of the ledger comes before position q
Before(p, q) == p[1] < q[1] \/ (p[1] = q[1] /\ p[2] < q[2])

PastTheEnd == <<Len(DeviceKeys) + 1, 1>>

\* no action is staged at a position strictly between p and q
NoActionBetween(ua, p, q) ==
    \A i \in 1..Len(DeviceKeys) :
        \A j \in 1..Len(ua[DeviceKeys[i]]) :
            ~(Before(p, <<i, j>>) /\ Before(<<i, j>>, q))

\* the position of the last call of run r, or the position before the first
LastPosition(cs, r) ==
    LET mine == CallsOf(cs, r)
    IN  IF mine = << >> THEN <<1, 0>> ELSE mine[Len(mine)].at

\* the request the executor is to get for an action
ExpectedRequest(device, action) ==
    CASE action.type = "remove" -> [op |-> "removeDevice", deviceName |-> device]
      [] action.type = "shrink" -> [op |-> "shrinkDevice", deviceName |-> device,
                                    newSize |-> action.value]

\* a step in which a request is sent to the executor
Issued == Len(calls') = Len(calls) + 1

\* a step in which run r comes to its end without a failure
Finished(r) ==
    /\ r \in 1..Len(runs')
    /\ runs'[r].pc = "done"
    /\ (r \in 1..Len(runs) => runs[r].pc = "await")

\* C4: a run sends the staged actions one at a time, the devices in the
\* order of the ledger's keys and the actions of a device in the order they
\* were appended; it sends a request only when all its earlier requests
\* have resolved, each request is removeDevice(device) for a remove and
\* shrinkDevice(device, value) for a shrink, and no staged action between
\* two requests, or after the last one, is passed over
C4_CommitOrdering ==
    /\ [](\A r \in 1..Len(runs) :
            LET mine == CallsOf(calls, r)
            IN  \A k \in 1..(Len(mine) - 1) :
                    /\ mine[k].result = "resolved"
                    /\ Before(mine[k].at, mine[k + 1].at))
    /\ [][(Issued =>
              LET c == calls'[Len(calls')]
                  device == DeviceKeys[c.at[1]]
              IN  /\ c.request = ExpectedRequest(device, unappliedActions[device][c.at[2]])
                  /\ NoActionBetween(unappliedActions, LastPosition(calls, c.run), c.at))
           /\
           (\A r \in 1..Len(runs') :
              Finished(r) =>
                  NoActionBetween(unappliedActions, LastPosition(calls, r), PastTheEnd))
        ]_vars

\* a run has removed the disk and then, that request resolved, has sent the
\* shrink of its partition
C4_Witness ==
    \E r \in 1..Len(runs) :
        LET mine == CallsOf(calls, r)
        IN  /\ Len(mine) = 2
            /\ mine[1].request.op = "removeDevice" /\ mine[1].request.deviceName = "sda"
            /\ mine[2].request.op = "shrinkDevice" /\ mine[2].request.deviceName = "sda1"

\* a step in which the request run r awaits is rejected
Rejected(r) ==
    /\ r \in 1..Len(runs)
    /\ runs[r].pc = "await"
    /\ calls'[PendingCall(calls, r)].result = "rejected"

KindOf(request) == IF request.op = "removeDevice" THEN "deletion" ELSE "resizing"

BoolToNat(b) == IF b THEN 1 ELSE 0

\* C5: the rejected request of a run is its last one; the step that rejects
\* it sends no request, leaves the ledger and the other calls as they are,
\* does not set onNextClicked or call onNext, and records as dialogError the
\* executor's error with the device and the kind of the failed action; a
\* failed run does nothing afterwards, and onNext is owed to runs that
\* ended without a failure only
C5_AbortOnFirstFailure ==
    /\ [](/\ \A r \in 1..Len(runs) :
               LET mine == CallsOf(calls, r)
               IN  /\ \A k \in 1..Len(mine) : mine[k].result = "rejected" => k = Len(mine)
                   /\ runs[r].pc = "failed" <=>
                          (mine # << >> /\ mine[Len(mine)].result = "rejected")
          /\ onNextCalls + BoolToNat(onNextClicked)
                <= Cardinality({ r \in 1..Len(runs) : runs[r].pc = "done" }))
    /\ [][\A r \in 1..Len(runs) :
            /\ Rejected(r) =>
                  LET k == PendingCall(calls, r)
                  IN  /\ Len(calls') = Len(calls)
                      /\ \A m \in 1..Len(calls) : m # k => calls'[m] = calls[m]
                      /\ runs'[r].pc = "failed"
                      /\ unappliedActions' = unappliedActions
                      /\ onNextClicked' = onNextClicked
                      /\ onNextCalls' = onNextCalls
                      /\ isOpen =>
                            dialogError' =
                                <<[text |-> <<KindOf(calls[k].request),
                                              calls[k].request.deviceName>>,
                                   message |-> calls'[k].error]>>
            /\ runs[r].pc = "failed" =>
                  /\ runs'[r] = runs[r]
                  /\ CallsOf(calls', r) = CallsOf(calls, r)
        ]_vars

\* a run failed on its second request, after the first one had succeeded
C5_Witness ==
    \E r \in 1..Len(runs) :
        LET mine == CallsOf(calls, r)
        IN  /\ runs[r].pc = "failed"
            /\ Len(mine) = 2
            /\ mine[1].result = "resolved"
            /\ dialogError # << >>

\* C6: every staged shrink action holds a value strictly between 0 and the
\* total size of its device
C6_StoredShrinkInBounds ==
    \A d \in DeviceNames :
        \A i \in 1..Len(unappliedActions[d]) :
            unappliedActions[d][i].type = "shrink" =>
                /\ 0 < unappliedActions[d][i].value
                /\ unappliedActions[d][i].value < devices[d].total

\* C7: the value a shrink popover has resolved lies between 0 and the total
\* size of its device, both included
C7_ClampBounded ==
    \A d \in PopoverDevices :
        0 <= value[d] /\ value[d] <= devices[d].total

\* C8: the Resize button of a popover that can be opened is enabled exactly
\* when the popover's value is strictly between 0 and the device's total size
C8_ResizeGate ==
    \A d \in PopoverDevices :
        ShrinkEnabled(unappliedActions, isShrinkable, d) =>
            (~ResizeDisabled(d, value[d]) <=>
                (0 < value[d] /\ value[d] < devices[d].total))

\* C9: the status of the footer is warning exactly when the free space of
\* the selection plus both reclaimed totals is below the required size and
\* success otherwise (500 required with 100 free: warning at 350 reclaimed,
\* success at 410); while it is warning the Reclaim button is disabled, and
\* no commit run starts
C9_StatusRule ==
    /\ statusOf(100, 350, 500) = "warning"
    /\ statusOf(100, 410, 500) = "success"
    /\ [](/\ status \in {"warning", "success"}
          /\ status = "warning" <=>
                diskFreeSpace + selectedSpaceToDelete + selectedSpaceToShrink < requiredSize
          /\ status = "warning" => ReclaimDisabled)
    /\ [][Len(runs') > Len(runs) =>
            ~(diskFreeSpace + selectedSpaceToDelete + selectedSpaceToShrink < requiredSize)
        ]_vars

\* space is staged for reclaiming, but not enough: the status is warning
C9_Witness ==
    /\ status = "warning"
    /\ selectedSpaceToReclaim > 0
    /\ ReclaimDisabled

\* the shrink total counts device d
ShrinkEligible(ua, d) ==
    /\ ua[d] # << >>
    /\ ua[d][Len(ua[d])].type = "shrink"
    /\ ~HasRemove(ua, d)
    /\ RemovedAncestors(ua, d) = {}

\* C10: the shrink total holds a term for a device exactly when the
\* device's latest staged action is a shrink and neither the device nor any
\* of its ancestors has a staged remove
C10_ShrinkEligibility ==
    \A d \in DeviceNames :
        ReclaimableOver({d}, "shrink", devices, unappliedActions) =
            IF ShrinkEligible(unappliedActions, d)
            THEN devices[d].total
                    - unappliedActions[d][Len(unappliedActions[d])].value
            ELSE 0

\* the shrink of a partition is counted
C10_Witness ==
    /\ ShrinkEligible(unappliedActions, "sda1")
    /\ selectedSpaceToShrink > 0

\* the sum of total - value over the shrink actions in the sequence of d
ShrinkActionsSum(devs, ua, d) ==
    LET shrinks == SelectSeq(ua[d], LAMBDA a : a.type = "shrink")
    IN  SumSeq([i \in 1..Len(shrinks) |-> devs[d].total - shrinks[i].value])

\* a device of 80 bytes on its own
ExampleDevices == "sda1" :> Device("sda1", "partition", 80, 20, << >>, << >>)

\* C11: the term of a counted device in the shrink total is the sum of
\* total - value over all the shrink actions of its sequence and nothing
\* else: a device of 80 shrunk to 50 counts for 30, and once the undo has
\* taken the shrink away the device counts for 0
C11_ShrinkAccumulation ==
    /\ getReclaimableSpaceFromAction("shrink", ExampleDevices,
            "sda1" :> <<[type |-> "shrink", value |-> 50]>>) = 30
    /\ getReclaimableSpaceFromAction("shrink", ExampleDevices, "sda1" :> << >>) = 0
    /\ [](\A d \in DeviceNames :
            ShrinkEligible(unappliedActions, d) =>
                ReclaimableOver({d}, "shrink", devices, unappliedActions)
                    = ShrinkActionsSum(devices, unappliedActions, d))
    /\ [][\A d \in DeviceNames :
            (ShrinkEligible(unappliedActions, d) /\ unappliedActions'[d] = << >>) =>
                /\ ReclaimableOver({d}, "shrink", devices, unappliedActions) # 0
                /\ ReclaimableOver({d}, "shrink", devices, unappliedActions') = 0
        ]_vars

\* the partition of 80000 bytes is shrunk to 29600: 50400 are reclaimed
C11_Witness ==
    /\ unappliedActions["sda1"] = <<[type |-> "shrink", value |-> 29600]>>
    /\ selectedSpaceToShrink = 50400

\* C12: as long as the Reclaim button was not clicked no request has been
\* sent to the executor; a request is only ever sent by a step of a commit
\* run, and closing the dialog sends none
C12_NoRemoteEffectsBeforeConfirm ==
    /\ [](runs = << >> => calls = << >>)
    /\ [][/\ calls' # calls => (runs' # runs /\ runs' # << >>)
          /\ (isOpen /\ ~isOpen') => calls' = calls
        ]_vars

\* actions were staged and undone and the dialog was closed without a commit
C12_Witness ==
    /\ runs = << >>
    /\ ~isOpen
    /\ unappliedActions["sda"] # << >>
    /\ unappliedActions["sda1"] # << >>
    /\ calls = << >>

\* C15: the shrink control of a row can be used only when the row's
\* shrinkability query has resolved to yes: not while it is pending, not
\* after a no and not after a failure; a shrink is staged only on a device
\* reported shrinkable, and the other controls do not depend on the query
C15_ShrinkabilityGate ==
    /\ [](\A d \in PopoverDevices :
            /\ ShrinkEnabled(unappliedActions, isShrinkable, d) =>
                  (shrinkQuery[d] = "resolved" /\ isShrinkable[d] = "true")
            /\ shrinkQuery[d] \in {"pending", "failed"} => isShrinkable[d] = "undefined"
            /\ isDeviceResized(unappliedActions, d) => isShrinkable[d] = "true")
    /\ [][\A d \in PopoverDevices :
            (isDeviceResized(unappliedActions', d) /\ ~isDeviceResized(unappliedActions, d))
                => (shrinkQuery[d] = "resolved" /\ isShrinkable[d] = "true")
        ]_vars

\* the query of the partition failed and the session went on: the
\* partition was staged for removal and the commit run went through
C15_Witness ==
    /\ shrinkQuery["sda1"] = "failed"
    /\ HasRemove(unappliedActions, "sda1")
    /\ ~ShrinkEnabled(unappliedActions, isShrinkable, "sda1")
    /\ \E r \in 1..Len(runs) : runs[r].pc = "done"

RemoveCount(ua, d) == Cardinality({ i \in 1..Len(ua[d]) : ua[d][i].type = "remove" })

\* C17: the sequence of a device never holds more than one remove
C17_AtMostOneRemove ==
    \A d \in DeviceNames : RemoveCount(unappliedActions, d) <= 1

\* a remove is staged on a device, and the delete button is gone
C17_Witness ==
    /\ RemoveCount(unappliedActions, "sda1") = 1
    /\ ~DeleteButtonShown(unappliedActions, "sda1")

\* C19: with the free space and the required size as they are, a step that
\* makes the reclaimed total larger never turns a success status into a
\* warning
C19_StatusMonotonicity ==
    [][(/\ selectedSpaceToReclaim' > selectedSpaceToReclaim
        /\ diskFreeSpace' = diskFreeSpace
        /\ requiredSize' = requiredSize
        /\ status = "success") => status' = "success"]_vars

\* the removal of the disk was staged on top of the removal of its
\* partition, which was enough already
C19_Witness ==
    /\ requiredSize = 130000
    /\ HasRemove(unappliedActions, "sda")
    /\ HasRemove(unappliedActions, "sda1")
    /\ status = "success"

\* C20: the sequence of a device never holds more than one action: a row
\* with a staged action, or with a remove on a parent, offers neither the
\* shrink popover nor the delete button
C20_SingleActionPerDevice ==
    \A d \in DeviceNames :
        /\ Len(unappliedActions[d]) <= 1
        /\ (unappliedActions[d] # << >> \/ parentHasRemove(unappliedActions, d)) =>
              /\ ~ShrinkPopoverShown(unappliedActions, d)
              /\ ~DeleteButtonShown(unappliedActions, d)

\* a shrink is staged on the partition: the row offers the undo only
C20_Witness ==
    /\ Len(unappliedActions["sda1"]) = 1
    /\ isDeviceResized(unappliedActions, "sda1")
    /\ ~ShrinkPopoverShown(unappliedActions, "sda1")
    /\ ~DeleteButtonShown(unappliedActions, "sda1")
    /\ UndoShown(unappliedActions, "sda1")

\* C14: on a row that renders the actions, the undo button is shown exactly
\* when the sequence of the device is not empty and no ancestor of the device,
\* however far up, has a remove
C14_UndoVisibility ==
    \A d \in ActionDevices :
        UndoShown(unappliedActions, d) <=>
            (unappliedActions[d] # << >> /\ RemovedAncestors(unappliedActions, d) = {})

\* the devices of the rows: what the children links reach from the selected
\* disks
Reachable == { r.device : r \in Range(rows) }

\* C16: the ledger starts with an empty sequence under every key, its keys
\* are exactly the devices reachable from the selected disks, and no step
\* (append, undo, commit run) adds or deletes a key
C16_LedgerKeySet ==
    /\ \A d \in DOMAIN unappliedActions : unappliedActions[d] = << >>
    /\ [](DOMAIN unappliedActions = Reachable)
    /\ [][DOMAIN unappliedActions' = DOMAIN unappliedActions]_vars

\* the partition was staged, committed and undone again: its key is still
\* there, with an empty sequence
C16_Witness ==
    /\ \E c \in Range(calls) : c.request.deviceName = "sda1"
    /\ "sda1" \in DOMAIN unappliedActions
    /\ unappliedActions["sda1"] = << >>
    /\ unappliedActions["sda"] # << >>
    /\ DOMAIN unappliedActions = {"sda", "sda1", "luks1", "sdb"}

\* the requests a run over the ledger ua sends when nothing touches ua
Submitted(ua) ==
    Concat([i \in 1..Len(DeviceKeys) |->
              [j \in 1..Len(ua[DeviceKeys[i]]) |->
                  ExpectedRequest(DeviceKeys[i], ua[DeviceKeys[i]][j])]])

IsPrefix(s, t) == Len(s) <= Len(t) /\ s = SubSeq(t, 1, Len(s))

RequestsOf(cs, r) == [k \in 1..Len(CallsOf(cs, r)) |-> CallsOf(cs, r)[k].request]

\* C13: what a run sends is the ledger as it was when the button was
\* clicked, whatever is appended or undone while its requests are pending:
\* the requests sent so far are the first ones of that ledger, and a run
\* that has come to its end has sent all of them
C13_AtomicCommitView ==
    \A r \in 1..Len(runs) :
        \A ua \in Range(runs[r].staged) :
            /\ IsPrefix(RequestsOf(calls, r), Submitted(ua))
            /\ runs[r].pc = "done" => RequestsOf(calls, r) = Submitted(ua)

\* C18: onUndo called for a device whose sequence is empty ends with an
\* EmptySequence error and leaves the ledger as it was
C18_UndoOnEmpty ==
    \A c \in Range(lastUndo) :
        c.empty => (c.thrown = <<"EmptySequence">> /\ c.unchanged)

\* the runs that await the answer to a request
InProgress == { r \in 1..Len(runs) : runs[r].pc = "await" }

\* the requests the executor has not answered yet
Outstanding == { k \in 1..Len(calls) : calls[k].result = "pending" }

\* C22: at most one run is in progress and at most one request is
\* outstanding at any time: a click on "Reclaim space" while a run awaits an
\* answer starts no second run
C22_NoOverlappingRuns ==
    /\ Cardinality(InProgress) <= 1
    /\ Cardinality(Outstanding) <= 1

\* the runs that came to their end with every request resolved
Succeeded == { r \in 1..Len(runs) : runs[r].pc = "done" }

\* C21: onNext is called for the runs in which every request succeeded and
\* for no other, once for each of them, and never while the form is
\* disabled: with the dialog open, every such run has had its call of
\* onNext or has it deferred (onNextClicked) because the form is disabled
C21_ProceedExactlyOnce ==
    isOpen =>
        /\ onNextCalls + BoolToNat(onNextClicked) = Cardinality(Succeeded)
        /\ onNextClicked => isFormDisabled

\* the positions of the staged actions: <<index of the key, index in the
\* sequence>>
Positions(ua) ==
    UNION { { <<i, j>> : j \in 1..Len(ua[DeviceKeys[i]]) } : i \in 1..Len(DeviceKeys) }

\* the first staged action in the order of the ledger
FirstPosition(ua) ==
    CHOOSE p \in Positions(ua) : \A q \in Positions(ua) : ~Before(q, p)

\* C23: the step in which a request of a run is rejected leaves the ledger
\* as it is, sends nothing and starts no run, and a failed run never sends
\* anything again; a run started by a later click begins with the first
\* staged action in the order of the ledger, whatever earlier runs have had
\* answered already
C23_RecommitAfterFailure ==
    [][/\ \A r \in 1..Len(runs) :
            /\ Rejected(r) =>
                  /\ unappliedActions' = unappliedActions
                  /\ Len(calls') = Len(calls)
                  /\ Len(runs') = Len(runs)
            /\ runs[r].pc = "failed" =>
                  /\ runs'[r] = runs[r]
                  /\ CallsOf(calls', r) = CallsOf(calls, r)
       /\ (Len(runs') = Len(runs) + 1 /\ Positions(unappliedActions) # {}) =>
            LET p == FirstPosition(unappliedActions)
                d == DeviceKeys[p[1]]
            IN  /\ Len(calls') = Len(calls) + 1
                /\ calls'[Len(calls')].run = Len(runs')
                /\ calls'[Len(calls')].at = p
                /\ calls'[Len(calls')].request
                      = ExpectedRequest(d, unappliedActions[d][p[2]])
      ]_vars

\* a run failed on its second request; the run of a later click has sent the
\* first request, which had succeeded, once more
C23_Witness ==
    \E k1, k2, k3 \in 1..Len(calls) :
        /\ k1 < k2 /\ k2 < k3
        /\ calls[k1].run = calls[k2].run
        /\ calls[k1].result = "resolved"
        /\ calls[k2].result = "rejected"
        /\ runs[calls[k1].run].pc = "failed"
        /\ calls[k3].run # calls[k1].run
        /\ calls[k3].at = calls[k1].at
        /\ calls[k3].request = calls[k1].request
        /\ calls[k3].at = <<1, 1>>
        /\ unappliedActions["sda"] # << >>
        /\ unappliedActions["sda1"] # << >>

\* the levels at which the table shows a device
LevelsOf(d) == { r.level : r \in { x \in Range(rows) : x.device = d } }

\* C24: a device the table shows at level 2 or deeper only keeps an empty
\* sequence; no shrink is staged on a device of type disk and no remove on a
\* disk without children
C24_DepthAndTypeGating ==
    \A d \in DeviceNames :
        /\ (\A l \in LevelsOf(d) : l >= 2) => unappliedActions[d] = << >>
        /\ devices[d].type = "disk" => ~isDeviceResized(unappliedActions, d)
        /\ (devices[d].type = "disk" /\ devices[d].children = << >>) =>
              ~isDeviceRemoved(unappliedActions, d)

\* actions are staged on the disk and on its partition, none below the
\* partition and none on the disk without partitions
C24_Witness ==
    /\ LevelsOf("luks1") = {2}
    /\ isDeviceResized(unappliedActions, "sda1")
    /\ isDeviceRemoved(unappliedActions, "sda")
    /\ unappliedActions["luks1"] = << >>
    /\ unappliedActions["sdb"] = << >>
    /\ DeleteButtonShown(unappliedActions, "sdb")
    /\ ~DeleteEnabled(unappliedActions, "sdb")

\* C25: the opened dialog is none, modify or rescan; the rescan dialog opens
\* only from the modify dialog, with a launch of the storage editor; the
\* rescan dialog closes to none with the editor's window closed and the
\* handle cleared, "Rescan storage" calling onRescan once and "Ignore" not
\* at all; "Cancel" closes the modify dialog to none and opens no window
C25_ModifyStorageProtocol ==
    /\ [](/\ openedDialog \in {"", "modify", "rescan"}
          /\ (storageTab \/ cockpit_window # << >>) => openedDialog = "rescan")
    /\ [][/\ (openedDialog' = "rescan" /\ openedDialog # "rescan") =>
                (openedDialog = "modify" /\ launches' = launches + 1)
          /\ (openedDialog = "rescan" /\ openedDialog' # "rescan") =>
                /\ openedDialog' = ""
                /\ cockpit_window' = << >>
                /\ ~storageTab'
                /\ launches' = launches
                /\ onRescanCalls' \in {onRescanCalls, onRescanCalls + 1}
          /\ RescanStorageClicked => onRescanCalls' = onRescanCalls + 1
          /\ IgnoreClicked => onRescanCalls' = onRescanCalls
          /\ (openedDialog = "modify" /\ openedDialog' # "rescan") =>
                /\ openedDialog' \in {"", "modify"}
                /\ UNCHANGED <<cockpit_window, storageTab, launches, localStorage,
                               onRescanCalls>>
          /\ onRescanCalls' # onRescanCalls => openedDialog = "rescan"
      ]_vars

\* the editor was launched twice; one rescan dialog was left with "Rescan
\* storage" and the other with "Ignore"
C25_Witness ==
    /\ launches = 2
    /\ onRescanCalls = 1
    /\ openedDialog = ""
    /\ cockpit_window = << >>
    /\ ~storageTab
    /\ localStorage = <<CockpitAnaconda(<<"sda", "sdb">>)>>

====
